---- MODULE Spec2Model ----
(***************************************************************************)
(* Model of the pipeline orchestrator main.py (function go) and of the two *)
(* step programs the repository carries, src/basic_cleaning/run.py and     *)
(* src/train_random_forest/run.py.                                         *)
(*                                                                         *)
(* A Run is one call of go.  The artifact store (W&B) outlives the Run.    *)
(* Strings that the code splits are sequences of symbols: a step name is   *)
(* one symbol, "," is the separator symbol.  Directory removal follows     *)
(* POSIX: removing the directory the process stands in succeeds.           *)
(***************************************************************************)
EXTENDS Naturals, Sequences, FiniteSets

VARIABLES
    config,        \* [project_name, experiment_name, steps]: the Hydra config
    environ,       \* os.environ: the three variables go writes ("" = unset)
    active_steps,  \* go's local: the list of selected names
    orig_cwd,      \* go's local: os.getcwd() before the workspace is entered
    cwd,           \* the process working directory
    dirs,          \* the directories that exist
    tmp_dir,       \* the TemporaryDirectory of the Run ("" before it is made)
    workspace,     \* the files in tmp_dir
    pc,            \* go's position: start, body, exit_with, finally, done
    block,         \* the if-block of go's body that is reached next (1..6)
    exc,           \* an exception is propagating out of the with-body
    store,         \* the artifact store: versions per name, aliases set
    invoked,       \* the steps mlflow.run was called for in this Run, in order
    published,     \* the artifact names that got a new version in this Run
    tracked,       \* the <<project, group>> pairs the Run's steps tracked under
    failed,        \* the step whose invocation raised ("" = none)
    fail_point,    \* where in the step it raised ("" = none)
    outcome,       \* "" while running, then Succeeded or Failed
    store0,        \* the store when the Run started
    runs,          \* the number of Runs started so far
    prev_failed,   \* the step at which the previous Run failed ("" = none)
    prev_store     \* the store when the previous Run ended

vars == <<config, environ, active_steps, orig_cwd, cwd, dirs, tmp_dir, workspace,
          pc, block, exc, store, invoked, published, tracked, failed, fail_point,
          outcome, store0, runs, prev_failed, prev_store>>

\* ------------------------------------------------------------------ bounds

\* The longest selector string, in symbols ("a,b" has three).
MaxLen == 3

\* The most Runs in a row (the first and its reruns).
MaxRuns == 2

\* ------------------------------------------------------------- main.py data

\* _STEPS, the statically declared order.
STEPS == <<"download", "basic_cleaning", "data_check", "data_split",
           "train_random_forest", "test_regression_model">>

StepNames == {STEPS[i] : i \in 1..Len(STEPS)}

Pos(s) == CHOOSE i \in 1..Len(STEPS) : STEPS[i] = s

\* As BlockStep, with the first two if-blocks in the other order.
BlockStepSwapped(i) ==
    CASE i = 1 -> "basic_cleaning"
      [] i = 2 -> "download"
      [] i = 3 -> "data_check"
      [] i = 4 -> "data_split"
      [] i = 5 -> "train_random_forest"
      [] i = 6 -> "test_regression_model"

\* The step each if-block of go's body tests for and invokes, in program order.
BlockStep(i) ==
    CASE i = 1 -> "download"
      [] i = 2 -> "basic_cleaning"
      [] i = 3 -> "data_check"
      [] i = 4 -> "data_split"
      [] i = 5 -> "train_random_forest"
      [] i = 6 -> "test_regression_model"

NumBlocks == Len(STEPS)

\* here = get_original_cwd(): the repository root.
here == "repo"

Artifacts == {"sample.csv", "clean_sample.csv", "trainval_data.csv",
              "test_data.csv", "random_forest_export"}

Ref(n, a) == [name |-> n, alias |-> a]

\* The artifact references go passes to each step.
Inputs(s) ==
    CASE s = "download"              -> {}
      [] s = "basic_cleaning"        -> {Ref("sample.csv", "latest")}
      [] s = "data_check"            -> {Ref("clean_sample.csv", "latest"),
                                         Ref("clean_sample.csv", "reference")}
      [] s = "data_split"            -> {Ref("clean_sample.csv", "latest")}
      [] s = "train_random_forest"   -> {Ref("trainval_data.csv", "latest")}
      [] s = "test_regression_model" -> {Ref("random_forest_export", "production"),
                                         Ref("test_data.csv", "latest")}

\* The artifact names each step publishes under (data_check and
\* test_regression_model publish none; data_split's are the names the later
\* blocks ask for).
Outputs(s) ==
    CASE s = "download"              -> {"sample.csv"}
      [] s = "basic_cleaning"        -> {"clean_sample.csv"}
      [] s = "data_check"            -> {}
      [] s = "data_split"            -> {"trainval_data.csv", "test_data.csv"}
      [] s = "train_random_forest"   -> {"random_forest_export"}
      [] s = "test_regression_model" -> {}

\* ---------------------------------------------------------- selector string

\* The symbols of a selector string: the step names, the word all, the comma.
Symbols == StepNames \cup {"all", ","}

Strings == UNION {[1..n -> Symbols] : n \in 0..MaxLen}

RECURSIVE SplitAcc(_, _, _)
SplitAcc(s, toks, cur) ==
    IF s = <<>> THEN Append(toks, cur)
    ELSE IF Head(s) = "," THEN SplitAcc(Tail(s), Append(toks, cur), <<>>)
    ELSE SplitAcc(Tail(s), toks, Append(cur, Head(s)))

\* str.split(","): the pieces between the separators; "" gives [""].
Split(s) == SplitAcc(s, <<>>, <<>>)

\* As ActiveSteps, with the selector ignored: every step is active.
ActiveStepsAll(steps_par) == [i \in 1..Len(STEPS) |-> <<STEPS[i]>>]

\* active_steps = steps_par.split(",") if steps_par != "all" else _STEPS
ActiveSteps(steps_par) ==
    IF steps_par # <<"all">> THEN Split(steps_par)
    ELSE [i \in 1..Len(STEPS) |-> <<STEPS[i]>>]

\* As IsActive, with a substring test in place of list membership.
IsActiveSubstring(s, act) ==
    \E i \in 1..Len(act) : \E k \in 1..Len(act[i]) : act[i][k] = s

\* "name" in active_steps
IsActive(s, act) == \E i \in 1..Len(act) : act[i] = <<s>>

\* The first if-block from i on whose test passes (NumBlocks + 1: none).
NextBlock(i, act) ==
    IF \E j \in i..NumBlocks : IsActive(BlockStep(j), act)
    THEN CHOOSE j \in i..NumBlocks :
            /\ IsActive(BlockStep(j), act)
            /\ \A k \in i..(j - 1) : ~IsActive(BlockStep(k), act)
    ELSE NumBlocks + 1

\* ----------------------------------------------------------- artifact store

\* run.log_artifact: the next version under each name ("latest" moves to it).
Publish(st, names) ==
    [st EXCEPT !.versions =
        [a \in Artifacts |-> IF a \in names THEN st.versions[a] + 1
                             ELSE st.versions[a]]]

\* run.use_artifact(ref): the name has a version and the alias is set.
Resolvable(st, ref) ==
    /\ st.versions[ref.name] > 0
    /\ ref.alias = "latest" \/ ref \in st.aliases

InputsResolvable(st, s) == \A ref \in Inputs(s) : Resolvable(st, ref)

\* ------------------------------------------------------------ step programs

\* wandb.init: an argument given to init wins over the environment variable.
WandbInit(project, group, env) ==
    <<IF project # "" THEN project ELSE env.WANDB_PROJECT,
      IF group # "" THEN group ELSE env.WANDB_RUN_GROUP>>

\* The <<project, group>> a step's invocation tracks under.  basic_cleaning
\* passes project and group to wandb.init; train_random_forest passes neither
\* (nor, it is taken, do the steps whose program is not in the repository).
Tracking(s, env) ==
    IF s = "basic_cleaning" THEN WandbInit("nyc_airbnb", "cleaning", env)
    ELSE WandbInit("", "", env)

\* Where an invocation of s can raise: at use_artifact when an input does not
\* resolve; otherwise in its computation, before log_artifact ("run"), and, in
\* train_random_forest, in the plotting and logging that follow log_artifact.
FailPoints(st, s) ==
    IF ~InputsResolvable(st, s) THEN {"use_artifact"}
    ELSE {"run"} \cup (IF s = "train_random_forest" THEN {"after_log_artifact"}
                       ELSE {})

\* Whether an invocation of s that ends at point ("ok": it returned) has called
\* run.log_artifact.
LogArtifactReached(s, point) ==
    \/ point = "ok"
    \/ s = "train_random_forest" /\ point = "after_log_artifact"

PublishedAt(s, point) == IF LogArtifactReached(s, point) THEN Outputs(s) ELSE {}

\* The files go and the step leave in the working directory.
FilesWritten(s, point) ==
    (IF s = "train_random_forest" THEN {"rf_config.json"} ELSE {})
    \cup (IF s = "basic_cleaning" /\ LogArtifactReached(s, point)
          THEN {"clean_sample.csv"} ELSE {})
    \cup (IF s = "train_random_forest" /\ LogArtifactReached(s, point)
          THEN {"random_forest_dir"} ELSE {})

\* What go's if-block writes to os.environ before mlflow.run.
EnvBefore(s, env) ==
    IF s = "test_regression_model"
    THEN [env EXCEPT !.MLFLOW_CONDA_CREATE_FLAGS = "python=3.10"]
    ELSE env

\* ------------------------------------------------------------------- go

\* As RestoreDir, with no chdir at all.
RestoreNone(orig, now, ds) == now

\* The finally clause: os.chdir(orig_cwd), and os.chdir(here) if that raises.
RestoreDir(orig, now, ds) == IF orig \in ds THEN orig ELSE here

\* As Outcome, with the exception caught and dropped.
OutcomeSwallow(e) == "Succeeded"

\* try/finally with no except clause: what was raised leaves go.
Outcome(e) == IF e THEN "Failed" ELSE "Succeeded"

\* A raise in the with-body leaves the body; a return goes to the next block.
AfterBlock(i, act) ==
    IF NextBlock(i + 1, act) > NumBlocks THEN "exit_with" ELSE "body"

\* ------------------------------------------------------------- initial state

ProjectNames == {"nyc_airbnb", "other_project"}
ExperimentNames == {"cleaning", "development"}

\* Where Hydra leaves the process: the repository root or its output directory.
HydraDirs == {"repo", "outputs"}

\* The stores earlier Runs can have left: the outputs of a prefix of the
\* producing steps, one version each, with the aliases a user may have set.
ProducedBy(n) ==
    UNION {Outputs(STEPS[i]) : i \in 1..n}

PriorStores ==
    {[versions |-> [a \in Artifacts |-> IF a \in ProducedBy(n) THEN 1 ELSE 0],
      aliases |-> al] :
        n \in {0, 1, 2, 4, 5},
        al \in SUBSET {Ref("clean_sample.csv", "reference"),
                       Ref("random_forest_export", "production")}}

InitStores ==
    {st \in PriorStores : \A r \in st.aliases : st.versions[r.name] > 0}

Init ==
    /\ config \in [project_name : ProjectNames,
                   experiment_name : ExperimentNames,
                   steps : Strings]
    /\ environ = [WANDB_PROJECT |-> "", WANDB_RUN_GROUP |-> "",
                  MLFLOW_CONDA_CREATE_FLAGS |-> ""]
    /\ active_steps = <<>>
    /\ orig_cwd = ""
    /\ cwd \in HydraDirs
    /\ dirs = HydraDirs \cup {here}
    /\ tmp_dir = ""
    /\ workspace = {}
    /\ pc = "start"
    /\ block = 1
    /\ exc = FALSE
    /\ store \in InitStores
    /\ invoked = <<>>
    /\ published = {}
    /\ tracked = {}
    /\ failed = ""
    /\ fail_point = ""
    /\ outcome = ""
    /\ store0 = store
    /\ runs = 1
    /\ prev_failed = ""
    /\ prev_store = store

\* ------------------------------------------------------------------ actions

\* go, lines 24-39: the environment, the selection, the workspace.
Start ==
    /\ pc = "start"
    /\ environ' = [environ EXCEPT !.WANDB_PROJECT = config.project_name,
                                  !.WANDB_RUN_GROUP = config.experiment_name]
    /\ active_steps' = ActiveSteps(config.steps)
    /\ orig_cwd' = cwd
    /\ tmp_dir' = "tmp"
    /\ dirs' = dirs \cup {"tmp"}
    /\ cwd' = "tmp"
    /\ block' = NextBlock(1, active_steps')
    /\ pc' = AfterBlock(0, active_steps')
    /\ UNCHANGED <<config, workspace, exc, store, invoked, published, tracked,
                   failed, fail_point, outcome, store0, runs, prev_failed,
                   prev_store>>

\* One if-block whose mlflow.run returns.
RunStepOk ==
    /\ pc = "body"
    /\ LET s == BlockStep(block) IN
        /\ InputsResolvable(store, s)
        /\ environ' = EnvBefore(s, environ)
        /\ invoked' = Append(invoked, s)
        /\ tracked' = tracked \cup {Tracking(s, environ')}
        /\ store' = Publish(store, PublishedAt(s, "ok"))
        /\ published' = published \cup PublishedAt(s, "ok")
        /\ workspace' = workspace \cup FilesWritten(s, "ok")
        /\ block' = NextBlock(block + 1, active_steps)
        /\ pc' = AfterBlock(block, active_steps)
    /\ UNCHANGED <<config, active_steps, orig_cwd, cwd, dirs, tmp_dir, exc,
                   failed, fail_point, outcome, store0, runs, prev_failed,
                   prev_store>>

\* One if-block whose mlflow.run raises.
RunStepFail ==
    /\ pc = "body"
    /\ LET s == BlockStep(block) IN
        \E point \in FailPoints(store, s) :
            /\ environ' = EnvBefore(s, environ)
            /\ invoked' = Append(invoked, s)
            /\ tracked' = tracked \cup {Tracking(s, environ')}
            /\ store' = Publish(store, PublishedAt(s, point))
            /\ published' = published \cup PublishedAt(s, point)
            /\ workspace' = workspace \cup FilesWritten(s, point)
            /\ failed' = s
            /\ fail_point' = point
    /\ exc' = TRUE
    /\ pc' = "exit_with"
    /\ UNCHANGED <<config, active_steps, orig_cwd, cwd, dirs, tmp_dir, block,
                   outcome, store0, runs, prev_failed, prev_store>>

\* Leaving the with statement: TemporaryDirectory removes the workspace.
ExitWith ==
    /\ pc = "exit_with"
    /\ dirs' = dirs \ {tmp_dir}
    /\ workspace' = {}
    /\ pc' = "finally"
    /\ UNCHANGED <<config, environ, active_steps, orig_cwd, cwd, tmp_dir, block,
                   exc, store, invoked, published, tracked, failed, fail_point,
                   outcome, store0, runs, prev_failed, prev_store>>

\* The finally clause, then go returns or raises.
Finally ==
    /\ pc = "finally"
    /\ cwd' = RestoreDir(orig_cwd, cwd, dirs)
    /\ outcome' = Outcome(exc)
    /\ pc' = "done"
    /\ UNCHANGED <<config, environ, active_steps, orig_cwd, dirs, tmp_dir,
                   workspace, block, exc, store, invoked, published, tracked,
                   failed, fail_point, store0, runs, prev_failed, prev_store>>

Next == Start \/ RunStepOk \/ RunStepFail \/ ExitWith \/ Finally

Spec == Init /\ [][Next]_vars

\* ------------------------------------------------------------------ reruns

RECURSIVE Join(_)
\* ",".join(names)
Join(names) ==
    IF names = <<>> THEN <<>>
    ELSE IF Len(names) = 1 THEN <<names[1]>>
    ELSE <<names[1], ",">> \o Join(Tail(names))

\* The selector that names the steps from K to the last one.
RerunSelector(K) == Join(SubSeq(STEPS, Pos(K), Len(STEPS)))

\* The caller runs go again after a failed Run, restricted to the steps from
\* the one that failed: a new process, the same store.
Rerun ==
    /\ pc = "done"
    /\ outcome = "Failed"
    /\ runs < MaxRuns
    /\ config' = [config EXCEPT !.steps = RerunSelector(failed)]
    /\ environ' = [WANDB_PROJECT |-> "", WANDB_RUN_GROUP |-> "",
                   MLFLOW_CONDA_CREATE_FLAGS |-> ""]
    /\ active_steps' = <<>>
    /\ orig_cwd' = ""
    /\ tmp_dir' = ""
    /\ pc' = "start"
    /\ block' = 1
    /\ exc' = FALSE
    /\ invoked' = <<>>
    /\ published' = {}
    /\ tracked' = {}
    /\ failed' = ""
    /\ fail_point' = ""
    /\ outcome' = ""
    /\ store0' = store
    /\ runs' = runs + 1
    /\ prev_failed' = failed
    /\ prev_store' = store
    /\ UNCHANGED <<cwd, dirs, workspace, store>>

NextRerun == Start \/ RunStepOk \/ RunStepFail \/ ExitWith \/ Finally \/ Rerun

SpecRerun == Init /\ [][NextRerun]_vars

\* ------------------------------------------------------------------ claims

\* The names the selector string lists, as the caller wrote them.
Named(s) ==
    \E i \in 1..Len(Split(config.steps)) : Split(config.steps)[i] = <<s>>

ExplicitSelector == config.steps # <<"all">>

HasUnknownName ==
    /\ ExplicitSelector
    /\ \E i \in 1..Len(Split(config.steps)) :
          \A s \in StepNames : Split(config.steps)[i] # <<s>>

\* C1: a selector holding a name that is no pipeline step makes the Run fail
\* before any step is invoked: no step runs, nothing is published, and the Run
\* ends Failed.
C1_UnknownNameAborts ==
    HasUnknownName =>
        /\ invoked = <<>>
        /\ published = {}
        /\ pc = "done" => outcome = "Failed"

\* C2: whenever X is invoked before Y in a Run, X precedes Y in the static
\* list _STEPS, whatever the order of the names in the selector.
C2_StaticOrder ==
    \A i, j \in 1..Len(invoked) :
        i < j => Pos(invoked[i]) < Pos(invoked[j])

\* Two steps were invoked and the selector names them in the opposite order.
C2_Witness ==
    /\ Len(invoked) = 2
    /\ config.steps = <<invoked[2], ",", invoked[1]>>

\* C3: with an explicit selector only named steps are invoked, each at most
\* once, and nothing is published under the output names of a step not named.
C3_OnlyNamedOnce ==
    ExplicitSelector =>
        /\ \A i \in 1..Len(invoked) : Named(invoked[i])
        /\ \A i, j \in 1..Len(invoked) : invoked[i] = invoked[j] => i = j
        /\ \A s \in StepNames : ~Named(s) => Outputs(s) \cap published = {}

\* The selector names one step twice; the Run ended having invoked it once.
C3_Witness ==
    /\ pc = "done"
    /\ Len(config.steps) = 3
    /\ config.steps[2] = ","
    /\ config.steps[1] = config.steps[3]
    /\ invoked = <<config.steps[1]>>
    /\ published # {}

\* C4: once the invocation of a step has raised, that step stays the last one
\* invoked in the Run, and the Run ends Failed.
C4_FailureAborts ==
    /\ exc <=> failed # ""
    /\ exc =>
        /\ invoked # <<>>
        /\ invoked[Len(invoked)] = failed
        /\ pc \in {"exit_with", "finally", "done"}
        /\ pc = "done" => outcome = "Failed"

\* A Run ended after a step failed while a later active step was still to come.
C4_Witness ==
    /\ pc = "done"
    /\ outcome = "Failed"
    /\ NextBlock(Pos(failed) + 1, active_steps) <= NumBlocks

\* C5: when go has returned or raised, the workspace directory is gone and the
\* working directory is the one the process had before it entered the workspace.
C5_WorkspaceGoneCwdRestored ==
    pc = "done" =>
        /\ tmp_dir # ""
        /\ tmp_dir \notin dirs
        /\ cwd = orig_cwd
        /\ cwd \in dirs

\* A Run that failed in a step ended, started from Hydra's output directory.
C5_Witness ==
    /\ pc = "done"
    /\ exc
    /\ orig_cwd # here

\* An input of active step s that does not resolve in the store the Run starts
\* with and that no earlier active step of the Run produces.
UnresolvableAtStart(s) ==
    \E ref \in Inputs(s) :
        /\ ~Resolvable(store0, ref)
        /\ ~(/\ ref.alias = "latest"
             /\ \E t \in StepNames :
                   /\ Pos(t) < Pos(s)
                   /\ IsActive(t, ActiveSteps(config.steps))
                   /\ ref.name \in Outputs(t))

\* C6: when an input reference of an active step cannot be resolved, the Run
\* aborts before any side effect: no step is invoked, nothing is published.
C6_UnresolvableDetectedEagerly ==
    (\E s \in StepNames :
        IsActive(s, ActiveSteps(config.steps)) /\ UnresolvableAtStart(s))
    => invoked = <<>> /\ published = {}

\* C7: a basic_cleaning or train_random_forest invocation that raised has
\* published no version of its output artifact.
C7_FailedStepPublishedNothing ==
    failed \in {"basic_cleaning", "train_random_forest"} =>
        /\ Outputs(failed) \cap published = {}
        /\ \A a \in Outputs(failed) : store.versions[a] = store0.versions[a]

\* The rerun invoked the step the previous Run failed at, and it returned.
KNoLongerFails ==
    /\ \E i \in 1..Len(invoked) : invoked[i] = prev_failed
    /\ failed # prev_failed

\* No step of the Run broke in its own computation.
NoStepFault == fail_point \notin {"run", "after_log_artifact"}

\* The rerun leaves the steps before K alone and keeps what the store held.
RerunReuses ==
    /\ \A i \in 1..Len(invoked) : Pos(invoked[i]) >= Pos(prev_failed)
    /\ \A a \in Artifacts : store.versions[a] >= prev_store.versions[a]
    /\ \A n \in Artifacts, al \in {"latest", "reference", "production"} :
          Resolvable(prev_store, Ref(n, al)) => Resolvable(store, Ref(n, al))

AliasesSetFrom(K) ==
    /\ Pos(K) <= Pos("data_check") =>
          Ref("clean_sample.csv", "reference") \in store.aliases
    /\ Ref("random_forest_export", "production") \in store.aliases

C9_TrackedUnderRunContext ==
    \A t \in tracked : t = <<config.project_name, config.experiment_name>>

\* C10: the workspace directory is never removed while it is still the
\* process working directory.
C10_RestoreBeforeRemove ==
    ~(tmp_dir # "" /\ tmp_dir \notin dirs /\ cwd = tmp_dir)

====
